---------------------------- MODULE Spec2Model ----------------------------
(***************************************************************************)
(* Battery-health certificate backend (src/app.py): the diagnostic-report  *)
(* extraction (extract_from_filename, parse_diagnostic_report,             *)
(* extract_data_from_pdf), the /api/extract-pdf handler around it and the  *)
(* certificate rendering (generate_certificate_pdf).                       *)
(*                                                                         *)
(* A string is a sequence of one-character strings, so that the regular    *)
(* expressions of the source are matched character by character with the   *)
(* backtracking order of Python's re module, and the string conversions    *)
(* (strip, upper, split, int, float, format) are computed as the code      *)
(* computes them.                                                          *)
(***************************************************************************)
EXTENDS Integers, Sequences, FiniteSets, TLC

(***************************************************************************)
(* Characters.  The alphabet is ASCII letters, digits, the white space and *)
(* the punctuation that occur in the reports and file names of the model.  *)
(***************************************************************************)
UpperSeq ==
    <<"A", "B", "C", "D", "E", "F", "G", "H", "I", "J", "K", "L", "M",
      "N", "O", "P", "Q", "R", "S", "T", "U", "V", "W", "X", "Y", "Z">>
LowerSeq ==
    <<"a", "b", "c", "d", "e", "f", "g", "h", "i", "j", "k", "l", "m",
      "n", "o", "p", "q", "r", "s", "t", "u", "v", "w", "x", "y", "z">>
DigitSeq ==
    <<"0", "1", "2", "3", "4", "5", "6", "7", "8", "9">>
UpperCase ==
    {UpperSeq[i] : i \in DOMAIN UpperSeq}
LowerCase ==
    {LowerSeq[i] : i \in DOMAIN LowerSeq}
Digit ==
    {DigitSeq[i] : i \in DOMAIN DigitSeq}
\* \s of the re module, and str.strip() / str.split() white space
Space ==
    {" ", "\n", "\t"}
Punct ==
    {":", ",", ".", "%", "(", ")", "-", "/", "_"}
Alphabet ==
    UpperCase \cup LowerCase \cup Digit \cup Space \cup Punct

\* str.upper() / str.lower() on one character
ToUpper(c) ==
    IF c \in LowerCase THEN UpperSeq[CHOOSE i \in DOMAIN LowerSeq : LowerSeq[i] = c] ELSE c
ToLower(c) ==
    IF c \in UpperCase THEN LowerSeq[CHOOSE i \in DOMAIN UpperSeq : UpperSeq[i] = c] ELSE c
\* the letters from a to b, upper case
Range(a, b) ==
    LET ia == CHOOSE i \in DOMAIN UpperSeq : UpperSeq[i] = a
        ib == CHOOSE i \in DOMAIN UpperSeq : UpperSeq[i] = b
    IN  {UpperSeq[i] : i \in ia..ib}
\* a character class compiled with re.IGNORECASE
AnyCase(cls) ==
    cls \cup {ToUpper(c) : c \in cls} \cup {ToLower(c) : c \in cls}
\* value of a decimal digit
DigitVal(c) ==
    (CHOOSE i \in DOMAIN DigitSeq : DigitSeq[i] = c) - 1

(***************************************************************************)
(* Regular expressions: a pattern is a sequence of items.                  *)
(*   rep    a character class repeated lo..hi times (hi unbounded when     *)
(*          many), greedy or lazy                                          *)
(*   open / close   the parentheses of capture group g                     *)
(*   alt    alternatives, tried left to right                              *)
(*   end    the $ anchor                                                   *)
(***************************************************************************)
Rep(cls, lo, hi) ==
    << [k |-> "rep", cls |-> cls, lo |-> lo, hi |-> hi, many |-> FALSE, lazy |-> FALSE] >>
RepFrom(cls, lo) ==
    << [k |-> "rep", cls |-> cls, lo |-> lo, hi |-> lo, many |-> TRUE, lazy |-> FALSE] >>
LazyFrom(cls, lo) ==
    << [k |-> "rep", cls |-> cls, lo |-> lo, hi |-> lo, many |-> TRUE, lazy |-> TRUE] >>
Lit(str) ==
    [i \in DOMAIN str |-> [k |-> "rep", cls |-> {str[i]}, lo |-> 1, hi |-> 1, many |-> FALSE, lazy |-> FALSE]]
LitI(str) ==
    [i \in DOMAIN str |-> [k |-> "rep", cls |-> AnyCase({str[i]}), lo |-> 1, hi |-> 1, many |-> FALSE, lazy |-> FALSE]]
Group(g, body) ==
    << [k |-> "open", g |-> g] >> \o body \o << [k |-> "close", g |-> g] >>
Alt(alts) ==
    << [k |-> "alt", alts |-> alts] >>
Opt(body) ==
    Alt(<< body, <<>> >>)
AtEnd ==
    << [k |-> "end"] >>

\* the span of every group before a match: none
NoCaps ==
    [g \in 1..3 |-> <<0, 0>>]
\* re.search / re.match returning None
NoMatch ==
    [ok |-> FALSE, end |-> 0, caps |-> NoCaps]

\* how many characters from pos on are in cls, counting at most max unless
\* many (a run is counted 32 characters at a time where it is that long)
RECURSIVE RunLen(_, _, _, _, _)
RunLen(s, pos, cls, many, max) ==
    IF (~many /\ max = 0) \/ pos > Len(s) THEN 0
    ELSE IF s[pos] \notin cls THEN 0
    ELSE IF /\ pos + 31 <= Len(s)
            /\ many \/ max >= 32
            /\ \A j \in pos..(pos + 31) : s[j] \in cls
         THEN 32 + RunLen(s, pos + 32, cls, many, max - 32)
    ELSE 1 + RunLen(s, pos + 1, cls, many, max - 1)

\* $ without re.MULTILINE in effect on it: the end, or before a final newline
AtEndOfText(s, pos) ==
    pos = Len(s) + 1 \/ (pos = Len(s) /\ s[pos] = "\n")

\* Match the items re at position pos of s, backtracking as re does: the
\* first success in the order greedy = longest first, lazy = shortest first,
\* alternatives left to right.
RECURSIVE Match(_, _, _, _)
RECURSIVE TryCounts(_, _, _, _, _, _, _)
RECURSIVE TryAlts(_, _, _, _, _)
Match(re, s, pos, caps) ==
    IF re = <<>> THEN [ok |-> TRUE, end |-> pos, caps |-> caps]
    ELSE LET it == Head(re)
             rest == Tail(re)
         IN  CASE it.k = "open" ->
                    Match(rest, s, pos, [caps EXCEPT ![it.g] = <<pos, pos>>])
               [] it.k = "close" ->
                    Match(rest, s, pos, [caps EXCEPT ![it.g] = <<caps[it.g][1], pos>>])
               [] it.k = "end" ->
                    IF AtEndOfText(s, pos) THEN Match(rest, s, pos, caps) ELSE NoMatch
               [] it.k = "alt" ->
                    TryAlts(it.alts, rest, s, pos, caps)
               [] it.k = "rep" ->
                    LET run == RunLen(s, pos, it.cls, it.many, it.hi)
                    IN  IF run < it.lo THEN NoMatch
                        ELSE IF it.lazy THEN TryCounts(rest, s, pos, caps, it.lo, run, 1)
                        ELSE TryCounts(rest, s, pos, caps, run, it.lo, -1)
TryCounts(rest, s, pos, caps, n, last, step) ==
    LET r == Match(rest, s, pos + n, caps)
    IN  IF r.ok THEN r
        ELSE IF n = last THEN NoMatch
        ELSE TryCounts(rest, s, pos, caps, n + step, last, step)
TryAlts(alts, rest, s, pos, caps) ==
    IF alts = <<>> THEN NoMatch
    ELSE LET r == Match(Head(alts) \o rest, s, pos, caps)
         IN  IF r.ok THEN r ELSE TryAlts(Tail(alts), rest, s, pos, caps)

\* re.search(pattern, s): the match at the leftmost position that has one
re_search(re, s) ==
    LET starts == {p \in 1..(Len(s) + 1) : Match(re, s, p, NoCaps).ok}
    IN  IF starts = {} THEN NoMatch
        ELSE Match(re, s, CHOOSE p \in starts : \A q \in starts : p <= q, NoCaps)
\* match.group(g)
group(s, m, g) ==
    SubSeq(s, m.caps[g][1], m.caps[g][2] - 1)

filename_patterns ==
    <<
      \* 1. src/app.py:313  r'([A-Z][A-Za-z]+)-([A-Za-z0-9\s]+?)(?:EEV)?-(\d{4})'
      ( Group(1, Rep(UpperCase, 1, 1) \o RepFrom(UpperCase \cup LowerCase, 1))
        \o Lit(<<"-">>)
        \o Group(2, LazyFrom(UpperCase \cup LowerCase \cup Digit \cup Space, 1))
        \o Opt(Lit(<<"E", "E", "V">>))
        \o Lit(<<"-">>)
        \o Group(3, Rep(Digit, 4, 4)) ),
      \* 2. src/app.py:314  r'([A-Z][A-Za-z]+)[-_]([A-Za-z0-9\s]+?)[-_](\d{4})'
      ( Group(1, Rep(UpperCase, 1, 1) \o RepFrom(UpperCase \cup LowerCase, 1))
        \o Rep({"-", "_"}, 1, 1)
        \o Group(2, LazyFrom(UpperCase \cup LowerCase \cup Digit \cup Space, 1))
        \o Rep({"-", "_"}, 1, 1)
        \o Group(3, Rep(Digit, 4, 4)) ),
      \* 3. src/app.py:315  r'([A-Z]{2,})-([A-Za-z0-9]+)-(\d{4})'
      ( Group(1, RepFrom(UpperCase, 2))
        \o Lit(<<"-">>)
        \o Group(2, RepFrom(UpperCase \cup LowerCase \cup Digit, 1))
        \o Lit(<<"-">>)
        \o Group(3, Rep(Digit, 4, 4)) )
    >>

vin_patterns ==
    <<
      \* 1. src/app.py:349  r'VIN[:\s]*([A-HJ-NPR-Z0-9]{17})'
      ( LitI(<<"V", "I", "N">>)
        \o RepFrom(Space \cup {":"}, 0)
        \o Group(1, Rep(AnyCase(Range("A", "H") \cup Range("J", "N") \cup Range("R", "Z") \cup Digit \cup {"P"}), 17, 17)) ),
      \* 2. src/app.py:350  r'Vehicle\s+Identification\s+Number[:\s]*([A-HJ-NPR-Z0-9]{17})'
      ( LitI(<<"V", "e", "h", "i", "c", "l", "e">>)
        \o RepFrom(Space, 1)
        \o LitI(<<"I", "d", "e", "n", "t", "i", "f", "i", "c", "a", "t", "i", "o", "n">>)
        \o RepFrom(Space, 1)
        \o LitI(<<"N", "u", "m", "b", "e", "r">>)
        \o RepFrom(Space \cup {":"}, 0)
        \o Group(1, Rep(AnyCase(Range("A", "H") \cup Range("J", "N") \cup Range("R", "Z") \cup Digit \cup {"P"}), 17, 17)) ),
      \* 3. src/app.py:351  r'Chassis\s+Number[:\s]*([A-HJ-NPR-Z0-9]{17})'
      ( LitI(<<"C", "h", "a", "s", "s", "i", "s">>)
        \o RepFrom(Space, 1)
        \o LitI(<<"N", "u", "m", "b", "e", "r">>)
        \o RepFrom(Space \cup {":"}, 0)
        \o Group(1, Rep(AnyCase(Range("A", "H") \cup Range("J", "N") \cup Range("R", "Z") \cup Digit \cup {"P"}), 17, 17)) )
    >>

make_patterns ==
    <<
      \* 1. src/app.py:362  r'Make[:\s]+([A-Za-z]+)'
      ( LitI(<<"M", "a", "k", "e">>)
        \o RepFrom(Space \cup {":"}, 1)
        \o Group(1, RepFrom(AnyCase(UpperCase \cup LowerCase), 1)) ),
      \* 2. src/app.py:363  r'Manufacturer[:\s]+([A-Za-z]+)'
      ( LitI(<<"M", "a", "n", "u", "f", "a", "c", "t", "u", "r", "e", "r">>)
        \o RepFrom(Space \cup {":"}, 1)
        \o Group(1, RepFrom(AnyCase(UpperCase \cup LowerCase), 1)) ),
      \* 3. src/app.py:364  r'Brand[:\s]+([A-Za-z]+)'
      ( LitI(<<"B", "r", "a", "n", "d">>)
        \o RepFrom(Space \cup {":"}, 1)
        \o Group(1, RepFrom(AnyCase(UpperCase \cup LowerCase), 1)) )
    >>

model_patterns ==
    <<
      \* 1. src/app.py:375  r'Model[:\s]+([A-Za-z0-9\s\(\)\-]+?)\s+Year:'
      ( LitI(<<"M", "o", "d", "e", "l">>)
        \o RepFrom(Space \cup {":"}, 1)
        \o Group(1, LazyFrom(AnyCase(UpperCase \cup LowerCase \cup Digit \cup Space \cup {"(", ")", "-"}), 1))
        \o RepFrom(Space, 1)
        \o LitI(<<"Y", "e", "a", "r", ":">>) ),
      \* 2. src/app.py:376  r'Model[:\s]+([A-Za-z0-9\s\(\)\-]+?)\n'
      ( LitI(<<"M", "o", "d", "e", "l">>)
        \o RepFrom(Space \cup {":"}, 1)
        \o Group(1, LazyFrom(AnyCase(UpperCase \cup LowerCase \cup Digit \cup Space \cup {"(", ")", "-"}), 1))
        \o Lit(<<"\n">>) ),
      \* 3. src/app.py:377  r'Model[:\s]*:?\s*([^\n]+?)(?:\s+Year|\n)'
      ( LitI(<<"M", "o", "d", "e", "l">>)
        \o RepFrom(Space \cup {":"}, 0)
        \o Rep({":"}, 0, 1)
        \o RepFrom(Space, 0)
        \o Group(1, LazyFrom(Alphabet \ {"\n"}, 1))
        \o Alt(<< RepFrom(Space, 1) \o LitI(<<"Y", "e", "a", "r">>), Lit(<<"\n">>) >>) ),
      \* 4. src/app.py:378  r'Vehicle\s+Model[:\s]+([^\n]+)'
      ( LitI(<<"V", "e", "h", "i", "c", "l", "e">>)
        \o RepFrom(Space, 1)
        \o LitI(<<"M", "o", "d", "e", "l">>)
        \o RepFrom(Space \cup {":"}, 1)
        \o Group(1, RepFrom(Alphabet \ {"\n"}, 1)) )
    >>

year_patterns ==
    <<
      \* 1. src/app.py:395  r'Year[:\s]+(\d{4})'
      ( Lit(<<"Y", "e", "a", "r">>)
        \o RepFrom(Space \cup {":"}, 1)
        \o Group(1, Rep(Digit, 4, 4)) ),
      \* 2. src/app.py:396  r'Model\s+Year[:\s]+(\d{4})'
      ( Lit(<<"M", "o", "d", "e", "l">>)
        \o RepFrom(Space, 1)
        \o Lit(<<"Y", "e", "a", "r">>)
        \o RepFrom(Space \cup {":"}, 1)
        \o Group(1, Rep(Digit, 4, 4)) )
    >>

mileage_patterns ==
    <<
      \* 1. src/app.py:407  r'Distance\s+Traveled[:\s]+([\d,.\s]+)\s*Miles'
      ( LitI(<<"D", "i", "s", "t", "a", "n", "c", "e">>)
        \o RepFrom(Space, 1)
        \o LitI(<<"T", "r", "a", "v", "e", "l", "e", "d">>)
        \o RepFrom(Space \cup {":"}, 1)
        \o Group(1, RepFrom(Digit \cup Space \cup {",", "."}, 1))
        \o RepFrom(Space, 0)
        \o LitI(<<"M", "i", "l", "e", "s">>) ),
      \* 2. src/app.py:408  r'Distance\s+Traveled[:\s]+([\d,.\s]+)Miles'
      ( LitI(<<"D", "i", "s", "t", "a", "n", "c", "e">>)
        \o RepFrom(Space, 1)
        \o LitI(<<"T", "r", "a", "v", "e", "l", "e", "d">>)
        \o RepFrom(Space \cup {":"}, 1)
        \o Group(1, RepFrom(Digit \cup Space \cup {",", "."}, 1))
        \o LitI(<<"M", "i", "l", "e", "s">>) ),
      \* 3. src/app.py:409  r'Mileage[:\s]+([\d,.\s]+)\s*(?:miles|km)?'
      ( LitI(<<"M", "i", "l", "e", "a", "g", "e">>)
        \o RepFrom(Space \cup {":"}, 1)
        \o Group(1, RepFrom(Digit \cup Space \cup {",", "."}, 1))
        \o RepFrom(Space, 0)
        \o Opt(Alt(<< LitI(<<"m", "i", "l", "e", "s">>), LitI(<<"k", "m">>) >>)) ),
      \* 4. src/app.py:410  r'Odometer[:\s]+([\d,.\s]+)\s*(?:miles|km)?'
      ( LitI(<<"O", "d", "o", "m", "e", "t", "e", "r">>)
        \o RepFrom(Space \cup {":"}, 1)
        \o Group(1, RepFrom(Digit \cup Space \cup {",", "."}, 1))
        \o RepFrom(Space, 0)
        \o Opt(Alt(<< LitI(<<"m", "i", "l", "e", "s">>), LitI(<<"k", "m">>) >>)) ),
      \* 5. src/app.py:411  r'Total\s+Distance[:\s]+([\d,.\s]+)\s*Miles'
      ( LitI(<<"T", "o", "t", "a", "l">>)
        \o RepFrom(Space, 1)
        \o LitI(<<"D", "i", "s", "t", "a", "n", "c", "e">>)
        \o RepFrom(Space \cup {":"}, 1)
        \o Group(1, RepFrom(Digit \cup Space \cup {",", "."}, 1))
        \o RepFrom(Space, 0)
        \o LitI(<<"M", "i", "l", "e", "s">>) )
    >>

soc_patterns ==
    <<
      \* 1. src/app.py:428  r'Display\s+state\s+of\s+charge\s*\(?\s*SOC\s*\)?[:\s]*(\d+)\s*%'
      ( LitI(<<"D", "i", "s", "p", "l", "a", "y">>)
        \o RepFrom(Space, 1)
        \o LitI(<<"s", "t", "a", "t", "e">>)
        \o RepFrom(Space, 1)
        \o LitI(<<"o", "f">>)
        \o RepFrom(Space, 1)
        \o LitI(<<"c", "h", "a", "r", "g", "e">>)
        \o RepFrom(Space, 0)
        \o Rep({"("}, 0, 1)
        \o RepFrom(Space, 0)
        \o LitI(<<"S", "O", "C">>)
        \o RepFrom(Space, 0)
        \o Rep({")"}, 0, 1)
        \o RepFrom(Space \cup {":"}, 0)
        \o Group(1, RepFrom(Digit, 1))
        \o RepFrom(Space, 0)
        \o Lit(<<"%">>) ),
      \* 2. src/app.py:429  r'State\s+of\s+Charge[:\s]*(\d+)\s*%'
      ( LitI(<<"S", "t", "a", "t", "e">>)
        \o RepFrom(Space, 1)
        \o LitI(<<"o", "f">>)
        \o RepFrom(Space, 1)
        \o LitI(<<"C", "h", "a", "r", "g", "e">>)
        \o RepFrom(Space \cup {":"}, 0)
        \o Group(1, RepFrom(Digit, 1))
        \o RepFrom(Space, 0)
        \o Lit(<<"%">>) ),
      \* 3. src/app.py:430  r'SOC[:\s]*(\d+)\s*%'
      ( LitI(<<"S", "O", "C">>)
        \o RepFrom(Space \cup {":"}, 0)
        \o Group(1, RepFrom(Digit, 1))
        \o RepFrom(Space, 0)
        \o Lit(<<"%">>) )
    >>

date_patterns ==
    <<
      \* 1. src/app.py:443  r'Date\s+Created[:\s]*(\d{4})[/-](\d{2})[/-](\d{2})'
      ( LitI(<<"D", "a", "t", "e">>)
        \o RepFrom(Space, 1)
        \o LitI(<<"C", "r", "e", "a", "t", "e", "d">>)
        \o RepFrom(Space \cup {":"}, 0)
        \o Group(1, Rep(Digit, 4, 4))
        \o Rep({"/", "-"}, 1, 1)
        \o Group(2, Rep(Digit, 2, 2))
        \o Rep({"/", "-"}, 1, 1)
        \o Group(3, Rep(Digit, 2, 2)) ),
      \* 2. src/app.py:444  r'Test\s+Date[:\s]*(\d{4})[/-](\d{2})[/-](\d{2})'
      ( LitI(<<"T", "e", "s", "t">>)
        \o RepFrom(Space, 1)
        \o LitI(<<"D", "a", "t", "e">>)
        \o RepFrom(Space \cup {":"}, 0)
        \o Group(1, Rep(Digit, 4, 4))
        \o Rep({"/", "-"}, 1, 1)
        \o Group(2, Rep(Digit, 2, 2))
        \o Rep({"/", "-"}, 1, 1)
        \o Group(3, Rep(Digit, 2, 2)) ),
      \* 3. src/app.py:445  r'Diagnostic\s+Date[:\s]*(\d{4})[/-](\d{2})[/-](\d{2})'
      ( LitI(<<"D", "i", "a", "g", "n", "o", "s", "t", "i", "c">>)
        \o RepFrom(Space, 1)
        \o LitI(<<"D", "a", "t", "e">>)
        \o RepFrom(Space \cup {":"}, 0)
        \o Group(1, Rep(Digit, 4, 4))
        \o Rep({"/", "-"}, 1, 1)
        \o Group(2, Rep(Digit, 2, 2))
        \o Rep({"/", "-"}, 1, 1)
        \o Group(3, Rep(Digit, 2, 2)) ),
      \* 4. src/app.py:446  r'Report\s+Date[:\s]*(\d{4})[/-](\d{2})[/-](\d{2})'
      ( LitI(<<"R", "e", "p", "o", "r", "t">>)
        \o RepFrom(Space, 1)
        \o LitI(<<"D", "a", "t", "e">>)
        \o RepFrom(Space \cup {":"}, 0)
        \o Group(1, Rep(Digit, 4, 4))
        \o Rep({"/", "-"}, 1, 1)
        \o Group(2, Rep(Digit, 2, 2))
        \o Rep({"/", "-"}, 1, 1)
        \o Group(3, Rep(Digit, 2, 2)) )
    >>

battery_patterns ==
    <<
      \* 1. src/app.py:458  r'Battery\s+Capacity[:\s]*([^\n]+?)(?:\n|$)'
      ( LitI(<<"B", "a", "t", "t", "e", "r", "y">>)
        \o RepFrom(Space, 1)
        \o LitI(<<"C", "a", "p", "a", "c", "i", "t", "y">>)
        \o RepFrom(Space \cup {":"}, 0)
        \o Group(1, LazyFrom(Alphabet \ {"\n"}, 1))
        \o Alt(<< Lit(<<"\n">>), AtEnd >>) ),
      \* 2. src/app.py:459  r'Capacity[:\s]*([^\n]+?)(?:\n|$)'
      ( LitI(<<"C", "a", "p", "a", "c", "i", "t", "y">>)
        \o RepFrom(Space \cup {":"}, 0)
        \o Group(1, LazyFrom(Alphabet \ {"\n"}, 1))
        \o Alt(<< Lit(<<"\n">>), AtEnd >>) ),
      \* 3. src/app.py:460  r'Engine[:\s]+([^\s\n]+(?:/[^\s\n]+)?)'
      ( LitI(<<"E", "n", "g", "i", "n", "e">>)
        \o RepFrom(Space \cup {":"}, 1)
        \o Group(1, RepFrom(Alphabet \ (Space \cup {"\n"}), 1) \o Opt(Lit(<<"/">>) \o RepFrom(Alphabet \ (Space \cup {"\n"}), 1))) ),
      \* 4. src/app.py:461  r'Power[:\s]+([^\n]+?)(?:kW|KW)'
      ( LitI(<<"P", "o", "w", "e", "r">>)
        \o RepFrom(Space \cup {":"}, 1)
        \o Group(1, LazyFrom(Alphabet \ {"\n"}, 1))
        \o Alt(<< LitI(<<"k", "W">>), LitI(<<"K", "W">>) >>) ),
      \* 5. src/app.py:462  r'Battery\s+Size[:\s]*([^\n]+)'
      ( LitI(<<"B", "a", "t", "t", "e", "r", "y">>)
        \o RepFrom(Space, 1)
        \o LitI(<<"S", "i", "z", "e">>)
        \o RepFrom(Space \cup {":"}, 0)
        \o Group(1, RepFrom(Alphabet \ {"\n"}, 1)) )
    >>


(***************************************************************************)
(* The string operations the parser and the normalizer use.               *)
(***************************************************************************)
\* the string with its leading characters of cls removed
RECURSIVE LStrip(_, _)
LStrip(s, cls) ==
    IF s # <<>> /\ Head(s) \in cls THEN LStrip(Tail(s), cls) ELSE s
\* the string with its trailing characters of cls removed: re.sub(r'[:\s]+$', '', s)
\* for cls = [:\s], the right half of str.strip() for cls = white space
RECURSIVE RStrip(_, _)
RStrip(s, cls) ==
    IF s # <<>> /\ s[Len(s)] \in cls THEN RStrip(SubSeq(s, 1, Len(s) - 1), cls) ELSE s
\* str.strip()
strip(s) ==
    RStrip(LStrip(s, Space), Space)
\* re.sub(r'\s+', ' ', s): every run of white space becomes one blank
RECURSIVE collapse(_)
collapse(s) ==
    IF s = <<>> THEN <<>>
    ELSE IF Head(s) \in Space THEN <<" ">> \o collapse(LStrip(s, Space))
    ELSE <<Head(s)>> \o collapse(Tail(s))
\* ' '.join(s.split()): the words of s joined by one blank
join_split(s) ==
    strip(collapse(s))
\* s.replace(c, '')
remove(s, c) ==
    SelectSeq(s, LAMBDA x : x # c)
\* str.upper()
upper(s) ==
    [i \in DOMAIN s |-> ToUpper(s[i])]
\* s.split(sep) for a one-character separator: the list of the parts
RECURSIVE split(_, _)
split(s, sep) ==
    LET at == {i \in DOMAIN s : s[i] = sep}
    IN  IF at = {} THEN <<s>>
        ELSE LET i == CHOOSE j \in at : \A q \in at : j <= q
             IN  <<SubSeq(s, 1, i - 1)>> \o split(SubSeq(s, i + 1, Len(s)), sep)
\* int(s) of a string of decimal digits
RECURSIVE int(_)
int(s) ==
    IF s = <<>> THEN 0
    ELSE 10 * int(SubSeq(s, 1, Len(s) - 1)) + DigitVal(s[Len(s)])

\* float(s) raises ValueError unless s is digits with at most one point and at
\* least one digit (s holds only digits, points and white space here, and no
\* white space at its ends: the capture class is [\d,.\s] and the commas and
\* blanks are removed and the string stripped before the conversion)
float_raises_ValueError(s) ==
    \/ \E i \in DOMAIN s : s[i] \notin Digit \cup {"."}
    \/ Cardinality({i \in DOMAIN s : s[i] = "."}) > 1
    \/ \A i \in DOMAIN s : s[i] \notin Digit
\* the digits of the integer part of s, without leading zeros
integer_digits(s) ==
    LStrip(Head(split(s, ".")), {"0"})
\* the largest double is 1.797...e308, a number of 309 digits
FloatMaxDigits ==
    309
\* float(s) is inf: the integer part is beyond the range of a double (a
\* 309-digit integer part overflows from 1797...; the model's inputs of that
\* length start with a digit from 2 up, or are longer)
float_is_inf(s) ==
    LET d == integer_digits(s)
    IN  \/ Len(d) > FloatMaxDigits
        \/ Len(d) = FloatMaxDigits /\ DigitVal(d[1]) >= 2
\* the digits d in groups of three separated by commas: format(n, ',')
RECURSIVE thousands(_)
thousands(d) ==
    IF Len(d) <= 3 THEN d
    ELSE thousands(SubSeq(d, 1, Len(d) - 3)) \o <<",">> \o SubSeq(d, Len(d) - 2, Len(d))
\* f"{int(float(s)):,} miles" for a finite float(s): int() truncates to the
\* integer part (exact for the inputs of at most 15 significant digits)
format_miles(s) ==
    LET d == integer_digits(s)
    IN  thousands(IF d = <<>> THEN <<"0">> ELSE d) \o <<" ", "m", "i", "l", "e", "s">>

\* the lines a report of the model is made of, in the order they come in it
Lines ==
    <<
      \* 1. "VIN: KNAFK5A12A5123456"
      <<"V", "I", "N", ":", " ", "K", "N", "A", "F", "K", "5", "A", "1", "2",
         "A", "5", "1", "2", "3", "4", "5", "6">>,
      \* 2. "Make: Hyundai"
      <<"M", "a", "k", "e", ":", " ", "H", "y", "u", "n", "d", "a", "i">>,
      \* 3. "Model: X"
      <<"M", "o", "d", "e", "l", ":", " ", "X">>,
      \* 4. "Model: Niro  EV Year: 2022"
      <<"M", "o", "d", "e", "l", ":", " ", "N", "i", "r", "o", " ", " ", "E",
         "V", " ", "Y", "e", "a", "r", ":", " ", "2", "0", "2", "2">>,
      \* 5. "Year: 2022"
      <<"Y", "e", "a", "r", ":", " ", "2", "0", "2", "2">>,
      \* 6. "SOC: 140%"
      <<"S", "O", "C", ":", " ", "1", "4", "0", "%">>,
      \* 7. "SOC: 0%"
      <<"S", "O", "C", ":", " ", "0", "%">>,
      \* 8. "State of Charge: 100%"
      <<"S", "t", "a", "t", "e", " ", "o", "f", " ", "C", "h", "a", "r", "g",
         "e", ":", " ", "1", "0", "0", "%">>,
      \* 9. "Display state of charge (SOC): 87%"
      <<"D", "i", "s", "p", "l", "a", "y", " ", "s", "t", "a", "t", "e", " ",
         "o", "f", " ", "c", "h", "a", "r", "g", "e", " ", "(", "S",
         "O", "C", ")", ":", " ", "8", "7", "%">>,
      \* 10. "Test Date: 2024-03-15"
      <<"T", "e", "s", "t", " ", "D", "a", "t", "e", ":", " ", "2", "0", "2",
         "4", "-", "0", "3", "-", "1", "5">>,
      \* 11. "Report Date: 2023/01/02"
      <<"R", "e", "p", "o", "r", "t", " ", "D", "a", "t", "e", ":", " ", "2",
         "0", "2", "3", "/", "0", "1", "/", "0", "2">>,
      \* 12. "Mileage: 1.2.3"
      <<"M", "i", "l", "e", "a", "g", "e", ":", " ", "1", ".", "2", ".",
         "3">>,
      \* 13. "Mileage: 99...9" with as many digits as the largest double has
      ( <<"M", "i", "l", "e", "a", "g", "e", ":", " ">> \o [i \in 1..FloatMaxDigits |-> "9"] ),
      \* 14. "Odometer: 5 km"
      <<"O", "d", "o", "m", "e", "t", "e", "r", ":", " ", "5", " ", "k",
         "m">>,
      \* 15. "Distance Traveled: 12,345 Miles"
      <<"D", "i", "s", "t", "a", "n", "c", "e", " ", "T", "r", "a", "v", "e",
         "l", "e", "d", ":", " ", "1", "2", ",", "3", "4", "5", " ",
         "M", "i", "l", "e", "s">>,
      \* 16. "Battery Capacity: 64 kWh"
      <<"B", "a", "t", "t", "e", "r", "y", " ", "C", "a", "p", "a", "c", "i",
         "t", "y", ":", " ", "6", "4", " ", "k", "W", "h">>
    >>
\* a report has at most MaxLines lines
MaxLines ==
    2
\* the texts of at most n of the lines from the i-th on; extract_data_from_pdf
\* ends the text of every page with "\n"
RECURSIVE TextsFrom(_, _)
TextsFrom(i, n) ==
    IF n = 0 \/ i > Len(Lines) THEN {<<>>}
    ELSE TextsFrom(i + 1, n)
         \cup {Lines[i] \o <<"\n">> \o t : t \in TextsFrom(i + 1, n - 1)}
Texts ==
    TextsFrom(1, MaxLines)

\* names of uploaded files: "report.pdf", "Tesla-Model3-2023.pdf",
\* "Kia-X-2022.pdf", "notes.txt", ""
name_report ==
    <<"r", "e", "p", "o", "r", "t", ".", "p", "d", "f">>
name_tesla ==
    <<"T", "e", "s", "l", "a", "-", "M", "o", "d", "e", "l", "3", "-", "2", "0",
      "2", "3", ".", "p", "d", "f">>
name_kia ==
    <<"K", "i", "a", "-", "X", "-", "2", "0", "2", "2", ".", "p", "d", "f">>
name_notes ==
    <<"n", "o", "t", "e", "s", ".", "t", "x", "t">>
\* request.files: no 'file' part, or a file with its name
NoFile ==
    [present |-> FALSE, name |-> <<>>]
Uploads ==
    {NoFile} \cup {[present |-> TRUE, name |-> n] : n \in {name_report, name_tesla, name_kia, name_notes, <<>>}}
\* str(uuid.uuid4()): 32 lower-case hexadecimal digits in five groups
uuid4 ==
    <<"3", "f", "2", "a", "8", "c", "1", "e", "-", "1", "b", "2", "c", "-", "4",
      "d", "5", "e", "-", "8", "f", "9", "0", "-", "a", "b", "c", "d", "e", "f",
      "1", "2", "3", "4", "5", "6">>

(***************************************************************************)
(* State: one /api/extract-pdf request, from the upload to the response.   *)
(***************************************************************************)
VARIABLES
    pc,           \* where the request is
    upload,       \* request.files: the uploaded file and its name
    text,         \* the text PyPDF2 extracts from the uploaded document
    filename,     \* the filename argument of parse_diagnostic_report
    data,         \* the bag parse_diagnostic_report fills
    fld,          \* the field whose patterns are being tried (index into fields)
    pat,          \* the pattern of that field to try next
    consulted,    \* history: the <<field, pattern>> pairs searched so far
    set_by,       \* history: per field, the pattern that set it (0: none)
    result,       \* what extract_data_from_pdf returns
    temp_exists,  \* the temporary file is on disk
    saved,        \* history: file.save(temp_path) completed
    status,       \* the HTTP status of the response (0: none yet)
    cert_data,    \* the data argument of generate_certificate_pdf
    cert,         \* the strings drawn on the certificate
    request,      \* require_auth: the route and the Authorization header
    handler_ran,  \* require_auth: the decorated handler was called
    env,          \* os.getenv: the e-mail settings of the process
    certificates, \* request.json: the entries of a batch; the one of a single request
    idx,          \* the entries of the batch processed so far
    results,      \* the results of batch_generate
    rendered,     \* history: the entries whose certificate was rendered
    emails,       \* history: the calls of send_email, with what each one did
    threads,      \* the requests the threaded server has in progress
    calls,        \* the invocations of parse_diagnostic_report in progress
    outputs       \* history: what each finished invocation got and returned

\* the variables of the /api/extract-pdf request and of the rendering
extract_vars ==
    <<upload, text, filename, data, fld, pat, consulted, set_by, result,
      temp_exists, saved, cert_data, cert>>
\* the variables of require_auth
auth_vars ==
    <<request, handler_ran>>
\* the variables the /api/extract-pdf request and the rendering leave alone
\* the variables of generate_certificate and batch_generate
cert_vars ==
    <<env, certificates, idx, results, rendered, emails>>
\* the variables of the requests and invocations that run side by side
conc_vars ==
    <<threads, calls, outputs>>
other_vars ==
    <<auth_vars, cert_vars, conc_vars>>
vars ==
    <<pc, status, extract_vars, other_vars>>

\* a Python value: a str or an int
Str(s) ==
    [t |-> "str", s |-> s, n |-> 0]
IntV(n) ==
    [t |-> "int", s |-> <<>>, n |-> n]
\* bool(v): '' and 0 are false
truthy(v) ==
    IF v.t = "int" THEN v.n # 0 ELSE v.s # <<>>

\* the fields in the order parse_diagnostic_report extracts them
fields ==
    <<"vin", "make", "model", "year", "mileage", "soc", "test_date", "battery_capacity">>
FieldSet ==
    {fields[i] : i \in DOMAIN fields}
\* data = {'vin': '', 'make': '', ...}
empty_data ==
    [f \in FieldSet |-> Str(<<>>)]
patterns(f) ==
    CASE f = "vin" -> vin_patterns
      [] f = "make" -> make_patterns
      [] f = "model" -> model_patterns
      [] f = "year" -> year_patterns
      [] f = "mileage" -> mileage_patterns
      [] f = "soc" -> soc_patterns
      [] f = "test_date" -> date_patterns
      [] f = "battery_capacity" -> battery_patterns

(***************************************************************************)
(* extract_from_filename and the per-field steps of                        *)
(* parse_diagnostic_report.                                                *)
(***************************************************************************)
\* the index of the first pattern of pats, from k on, that re.search finds in s
\* (0: none)
RECURSIVE first_match(_, _, _)
first_match(pats, s, k) ==
    IF k > Len(pats) THEN 0
    ELSE IF re_search(pats[k], s).ok THEN k
    ELSE first_match(pats, s, k + 1)

\* extract_from_filename(filename): {} or {'make':, 'model':, 'year':} from the
\* first pattern that matches
extract_from_filename(fn) ==
    LET k == first_match(filename_patterns, fn, 1)
        m == re_search(filename_patterns[k], fn)
    IN  IF k = 0 THEN [f \in {} |-> Str(<<>>)]
        ELSE [f \in {"make", "model", "year"} |->
                 CASE f = "make" -> Str(group(fn, m, 1))
                   [] f = "model" -> Str(group(fn, m, 2))
                   [] f = "year" -> Str(group(fn, m, 3))]

\* data.update({k: v for k, v in filename_data.items() if v})
update(d, filename_data) ==
    [f \in DOMAIN d |->
        IF f \in DOMAIN filename_data /\ truthy(filename_data[f])
        THEN filename_data[f] ELSE d[f]]

\* the bag after the filename step
seed(d, fn) ==
    IF fn # <<>> THEN update(d, extract_from_filename(fn)) ELSE d

\* a store that keeps a value the field already has
store_if_empty(d, f, v) ==
    IF truthy(d[f]) THEN d ELSE [d EXCEPT ![f] = v]
\* data[f] = v
store(d, f, v) ==
    [d EXCEPT ![f] = v]

\* a model that is stripped only
model_text_stripped(g) ==
    strip(g)
\* model: strip, collapse the white space, drop the trailing colons and blanks
model_text(g) ==
    RStrip(collapse(strip(g)), {":"} \cup Space)
\* mileage: match.group(1).replace(',', '').replace(' ', '').strip()
miles_str(g) ==
    strip(remove(remove(g, ","), " "))
\* a range check without the upper limit
soc_not_negative(v) ==
    0 <= v
\* soc: 0 <= soc_value <= 100
soc_in_range(v) ==
    0 <= v /\ v <= 100
\* test date: y, m, d = match.groups(); f"{d}/{m}/{y}"
date_text(y, m, d) ==
    d \o <<"/">> \o m \o <<"/">> \o y
\* battery capacity: ' '.join(match.group(1).strip().split())
capacity_text(g) ==
    join_split(strip(g))

\* the value field f gets from the match m of one of its patterns in s
value(f, s, m) ==
    CASE f = "vin" -> Str(group(s, m, 1))
      [] f = "make" -> Str(upper(group(s, m, 1)))
      [] f = "model" -> Str(model_text(group(s, m, 1)))
      [] f = "year" -> Str(group(s, m, 1))
      [] f = "mileage" -> Str(format_miles(miles_str(group(s, m, 1))))
      [] f = "soc" -> IntV(int(group(s, m, 1)))
      [] f = "test_date" -> Str(date_text(group(s, m, 1), group(s, m, 2), group(s, m, 3)))
      [] f = "battery_capacity" -> Str(capacity_text(group(s, m, 1)))

\* the match raises an exception the loop does not catch: int(inf) raises
\* OverflowError, and the mileage loop has except ValueError only
raises(f, s, m) ==
    /\ f = "mileage"
    /\ ~float_raises_ValueError(miles_str(group(s, m, 1)))
    /\ float_is_inf(miles_str(group(s, m, 1)))

\* the condition under which the match sets the field and ends its loop
accepted(f, s, m) ==
    CASE f = "model" -> Len(model_text(group(s, m, 1))) > 1
      [] f = "mileage" -> /\ ~float_raises_ValueError(miles_str(group(s, m, 1)))
                          /\ ~float_is_inf(miles_str(group(s, m, 1)))
      [] f = "soc" -> soc_in_range(int(group(s, m, 1)))
      [] f = "battery_capacity" -> Len(capacity_text(group(s, m, 1))) > 0
      [] OTHER -> TRUE

(***************************************************************************)
(* The normalizer of extract_data_from_pdf.                                *)
(***************************************************************************)
CanonicalKeys ==
    {"test_date", "make", "model", "vin", "mileage", "battery_capacity", "state_of_health"}
\* the field of the bag a key of the result is taken from
raw_field(key) ==
    IF key = "state_of_health" THEN "soc" ELSE key
\* parts = test_date.split('/'); f"{parts[2]}-{parts[1]}-{parts[0]}"
convert_test_date(parts) ==
    parts[3] \o <<"-">> \o parts[2] \o <<"-">> \o parts[1]
\* a copy of make that does not look at the value
has_key_make_unchecked(parsed_data, key) ==
    \/ key = "make"
    \/ /\ truthy(parsed_data[raw_field(key)])
       /\ key = "test_date" => Len(split(parsed_data["test_date"].s, "/")) = 3
\* if parsed_data.get(field): the key is copied (for the test date: converted,
\* and only if it splits into three parts)
has_key(parsed_data, key) ==
    /\ truthy(parsed_data[raw_field(key)])
    /\ key = "test_date" => Len(split(parsed_data["test_date"].s, "/")) = 3
normalize(parsed_data) ==
    [key \in {k \in CanonicalKeys : has_key(parsed_data, k)} |->
        IF key = "test_date"
        THEN Str(convert_test_date(split(parsed_data["test_date"].s, "/")))
        ELSE parsed_data[raw_field(key)]]
\* return None
None ==
    [none |-> TRUE, map |-> [k \in {} |-> Str(<<>>)]]
\* return result if result else None
returned(res) ==
    IF DOMAIN res = {} THEN None ELSE [none |-> FALSE, map |-> res]

(***************************************************************************)
(* The /api/extract-pdf request.                                           *)
(***************************************************************************)
\* s.endswith(suffix)
endswith(s, suffix) ==
    /\ Len(s) >= Len(suffix)
    /\ SubSeq(s, Len(s) - Len(suffix) + 1, Len(s)) = suffix
lower(s) ==
    [i \in DOMAIN s |-> ToLower(s[i])]
\* the three checks of the upload that answer 400
upload_rejected(u) ==
    \/ ~u.present
    \/ u.name = <<>>
    \/ ~endswith(lower(u.name), <<".", "p", "d", "f">>)
\* f'temp_{uuid.uuid4()}_{file.filename}'; os.path.basename(temp_path) is the same
temp_filename(u) ==
    <<"t", "e", "m", "p", "_">> \o uuid4 \o <<"_">> \o u.name
\* an except branch that leaves the file where it is
cleanup_skipped(exists) ==
    exists
\* the except branch of extract_pdf: if 'temp_path' in locals() and
\* os.path.exists(temp_path): os.unlink(temp_path)
cleanup_on_error(exists) ==
    FALSE

NoCert ==
    [slot \in {} |-> <<>>]
NoData ==
    [k \in {} |-> Str(<<>>)]
\* no upload is being extracted and no certificate drawn
NoExtraction ==
    /\ upload = NoFile
    /\ text = <<>>
    /\ filename = <<>>
    /\ data = empty_data
    /\ fld = 0
    /\ pat = 0
    /\ consulted = {}
    /\ set_by = [f \in FieldSet |-> 0]
    /\ result = None
    /\ temp_exists = FALSE
    /\ saved = FALSE
    /\ cert_data = NoData
    /\ cert = NoCert
\* no request goes through require_auth
NoRequest ==
    /\ request = [route |-> "", header |-> <<>>]
    /\ handler_ran = FALSE
\* nothing runs side by side
NoThreads ==
    /\ threads = <<>>
    /\ calls = <<>>
    /\ outputs = {}
\* no settings, no entries and no results where no certificate is asked for
NoCertificates ==
    /\ env = [EMAIL_SENDER |-> FALSE, EMAIL_PASSWORD |-> FALSE, EMAIL_BCC |-> <<>>]
    /\ certificates = <<>>
    /\ idx = 0
    /\ results = [successful |-> 0, failed |-> 0, files |-> <<>>, errors |-> <<>>]
    /\ rendered = {}
    /\ emails = <<>>
Init ==
    /\ pc = "extract_pdf"
    /\ upload \in Uploads
    /\ text = <<>>
    /\ filename = <<>>
    /\ data = empty_data
    /\ fld = 0
    /\ pat = 0
    /\ consulted = {}
    /\ set_by = [f \in FieldSet |-> 0]
    /\ result = None
    /\ temp_exists = FALSE
    /\ saved = FALSE
    /\ status = 0
    /\ cert_data = NoData
    /\ cert = NoCert
    /\ NoRequest
    /\ NoCertificates
    /\ NoThreads

\* 'file' not in request.files, file.filename == '', or not a .pdf name: 400
RejectUpload ==
    /\ pc = "extract_pdf"
    /\ upload_rejected(upload)
    /\ status' = 400
    /\ pc' = "responded"
    /\ UNCHANGED <<upload, text, filename, data, fld, pat, consulted, set_by, result,
                   temp_exists, saved, cert_data, cert, other_vars>>

\* file.save(temp_path)
SaveUpload ==
    /\ pc = "extract_pdf"
    /\ ~upload_rejected(upload)
    /\ temp_exists' = TRUE
    /\ saved' = TRUE
    /\ pc' = "getsize"
    /\ UNCHANGED <<upload, text, filename, data, fld, pat, consulted, set_by, result,
                   status, cert_data, cert, other_vars>>

\* file.save(temp_path) raises, with the file created or not
SaveUploadFails ==
    /\ pc = "extract_pdf"
    /\ ~upload_rejected(upload)
    /\ temp_exists' \in BOOLEAN
    /\ pc' = "except"
    /\ UNCHANGED <<upload, text, filename, data, fld, pat, consulted, set_by, result,
                   saved, status, cert_data, cert, other_vars>>

\* file_size = os.path.getsize(temp_path)
GetSize ==
    /\ pc = "getsize"
    /\ pc' = "extract_data_from_pdf"
    /\ UNCHANGED <<upload, text, filename, data, fld, pat, consulted, set_by, result,
                   temp_exists, saved, status, cert_data, cert, other_vars>>

\* os.path.getsize raises
GetSizeFails ==
    /\ pc = "getsize"
    /\ pc' = "except"
    /\ UNCHANGED <<upload, text, filename, data, fld, pat, consulted, set_by, result,
                   temp_exists, saved, status, cert_data, cert, other_vars>>

\* extract_data_from_pdf reads the text of the pages; a blank text returns
\* None, any other text is parsed with the base name of the temporary file
ReadPdf ==
    /\ pc = "extract_data_from_pdf"
    /\ \E t \in Texts :
          /\ text' = t
          /\ IF strip(t) = <<>>
             THEN /\ result' = None
                  /\ pc' = "unlink"
                  /\ UNCHANGED filename
             ELSE /\ filename' = temp_filename(upload)
                  /\ pc' = "parse_diagnostic_report"
                  /\ UNCHANGED result
    /\ UNCHANGED <<upload, data, fld, pat, consulted, set_by,
                   temp_exists, saved, status, cert_data, cert, other_vars>>

\* open() or PyPDF2 raises: except Exception in extract_data_from_pdf, return None
ReadPdfFails ==
    /\ pc = "extract_data_from_pdf"
    /\ result' = None
    /\ pc' = "unlink"
    /\ UNCHANGED <<upload, text, filename, data, fld, pat, consulted, set_by,
                   temp_exists, saved, status, cert_data, cert, other_vars>>

\* parse_diagnostic_report: the bag, then the filename step
SeedFromFilename ==
    /\ pc = "parse_diagnostic_report"
    /\ data' = seed(empty_data, filename)
    /\ fld' = 1
    /\ pat' = 1
    /\ pc' = "patterns"
    /\ UNCHANGED <<upload, text, filename, consulted, set_by, result,
                   temp_exists, saved, status, cert_data, cert, other_vars>>

\* the loop goes on with the next pattern of the field, or with the next field
\* after the last one
next_pattern ==
    IF pat < Len(patterns(fields[fld]))
    THEN fld' = fld /\ pat' = pat + 1
    ELSE fld' = fld + 1 /\ pat' = 1
\* break
next_field ==
    fld' = fld + 1 /\ pat' = 1

\* if match: is false
PatternMisses(f, m) ==
    /\ ~m.ok
    /\ next_pattern
    /\ pc' = pc
    /\ UNCHANGED <<data, set_by>>
\* the match passes the field's check: the field is set, break
PatternSets(f, m) ==
    /\ m.ok
    /\ ~raises(f, text, m)
    /\ accepted(f, text, m)
    /\ data' = store(data, f, value(f, text, m))
    /\ set_by' = [set_by EXCEPT ![f] = pat]
    /\ next_field
    /\ pc' = pc
\* the match fails the field's check: the loop goes on
PatternRejected(f, m) ==
    /\ m.ok
    /\ ~raises(f, text, m)
    /\ ~accepted(f, text, m)
    /\ next_pattern
    /\ pc' = pc
    /\ UNCHANGED <<data, set_by>>
\* the conversion raises: parse_diagnostic_report is left by the exception
PatternRaises(f, m) ==
    /\ m.ok
    /\ raises(f, text, m)
    /\ pc' = "parse_raised"
    /\ UNCHANGED <<data, set_by, fld, pat>>

\* one iteration of a field's loop: match = re.search(pattern, text, ...)
TryPattern ==
    /\ pc = "patterns"
    /\ fld <= Len(fields)
    /\ LET f == fields[fld]
           m == re_search(patterns(f)[pat], text)
       IN  /\ \/ PatternMisses(f, m)
              \/ PatternSets(f, m)
              \/ PatternRejected(f, m)
              \/ PatternRaises(f, m)
           /\ consulted' = consulted \cup {<<f, pat>>}
    /\ UNCHANGED <<upload, text, filename, result, temp_exists, saved, status,
                   cert_data, cert, other_vars>>

\* parse_diagnostic_report returns the bag; extract_data_from_pdf converts it
Normalize ==
    /\ pc = "patterns"
    /\ fld > Len(fields)
    /\ result' = returned(normalize(data))
    /\ pc' = "unlink"
    /\ UNCHANGED <<upload, text, filename, data, fld, pat, consulted, set_by,
                   temp_exists, saved, status, cert_data, cert, other_vars>>

\* the exception of the parser reaches except Exception of
\* extract_data_from_pdf: return None
CatchParseError ==
    /\ pc = "parse_raised"
    /\ result' = None
    /\ pc' = "unlink"
    /\ UNCHANGED <<upload, text, filename, data, fld, pat, consulted, set_by,
                   temp_exists, saved, status, cert_data, cert, other_vars>>

\* os.unlink(temp_path), then the response: 200 with the data, or 400
Respond ==
    /\ pc = "unlink"
    /\ temp_exists' = FALSE
    /\ status' = IF result.none THEN 400 ELSE 200
    /\ pc' = "responded"
    /\ UNCHANGED <<upload, text, filename, data, fld, pat, consulted, set_by, result,
                   saved, cert_data, cert, other_vars>>

\* except Exception in extract_pdf: remove the temporary file if it exists, 500
HandleError ==
    /\ pc = "except"
    /\ temp_exists' = cleanup_on_error(temp_exists)
    /\ status' = 500
    /\ pc' = "responded"
    /\ UNCHANGED <<upload, text, filename, data, fld, pat, consulted, set_by, result,
                   saved, cert_data, cert, other_vars>>

Next ==
    \/ RejectUpload
    \/ SaveUpload
    \/ SaveUploadFails
    \/ GetSize
    \/ GetSizeFails
    \/ ReadPdf
    \/ ReadPdfFails
    \/ SeedFromFilename
    \/ TryPattern
    \/ Normalize
    \/ CatchParseError
    \/ Respond
    \/ HandleError

Spec ==
    Init /\ [][Next]_vars

(***************************************************************************)
(* generate_certificate_pdf: what it draws for the data it is given.       *)
(***************************************************************************)
\* data.get(key, default)
get(d, key, default) ==
    IF key \in DOMAIN d THEN d[key] ELSE default
\* str(n) for n >= 0
RECURSIVE str(_)
str(n) ==
    IF n < 10 THEN <<DigitSeq[n + 1]>>
    ELSE str(n \div 10) \o <<DigitSeq[(n % 10) + 1]>>
\* the text drawString shows for a value
shown(v) ==
    IF v.t = "int" THEN str(v.n) ELSE v.s
\* get_battery_status(state_of_health), for the integer the extraction returns
get_battery_status(state_of_health) ==
    LET soh == state_of_health.n
    IN  IF soh >= 85 THEN <<"E", "x", "c", "e", "l", "l", "e", "n", "t">>
        ELSE IF soh >= 65 THEN <<"G", "o", "o", "d">>
        ELSE <<"B", "a", "d">>
\* int(str(data.get('state_of_health', 90)).replace("%", "").strip())
percent_value(d) ==
    get(d, "state_of_health", IntV(90)).n
\* the slots of the certificate template
Slots ==
    {"test_date", "tested_by", "status", "make", "registration", "model",
     "first_registered", "vin", "mileage", "battery_capacity", "state_of_health"}
\* the string drawn in each slot
drawn(d) ==
    [slot \in Slots |->
        CASE slot = "status" -> get_battery_status(get(d, "state_of_health", IntV(90)))
          [] slot = "state_of_health" -> str(percent_value(d)) \o <<"%">>
          [] OTHER -> shown(get(d, slot, Str(<<>>)))]

\* a full result of the extraction, with state of health soh
full_result(soh) ==
    [key \in CanonicalKeys |->
        CASE key = "test_date" -> Str(<<"2", "0", "2", "4", "-", "0", "3", "-", "1", "5">>)
          [] key = "make" -> Str(<<"H", "Y", "U", "N", "D", "A", "I">>)
          [] key = "model" -> Str(<<"I", "o", "n", "i", "q">>)
          [] key = "vin" -> Str(SubSeq(Lines[1], 6, Len(Lines[1])))
          [] key = "mileage" -> Str(<<"1", "2", ",", "3", "4", "5", " ", "m", "i", "l", "e", "s">>)
          [] key = "battery_capacity" -> Str(<<"6", "4", " ", "k", "W", "h">>)
          [] key = "state_of_health" -> IntV(soh)]
\* the data given to generate_certificate_pdf: any subset of the keys
CertInputs ==
    {[key \in S |-> full_result(soh)[key]] : S \in SUBSET CanonicalKeys, soh \in {0, 64, 87, 100}}

InitRender ==
    /\ pc = "generate_certificate_pdf"
    /\ cert_data \in CertInputs
    /\ cert = NoCert
    /\ upload = NoFile
    /\ text = <<>>
    /\ filename = <<>>
    /\ data = empty_data
    /\ fld = 0
    /\ pat = 0
    /\ consulted = {}
    /\ set_by = [f \in FieldSet |-> 0]
    /\ result = None
    /\ temp_exists = FALSE
    /\ saved = FALSE
    /\ status = 0
    /\ NoRequest
    /\ NoCertificates
    /\ NoThreads

\* generate_certificate_pdf(data, output_path): the drawing calls, c.save()
GenerateCertificatePdf ==
    /\ pc = "generate_certificate_pdf"
    /\ cert' = drawn(cert_data)
    /\ pc' = "rendered"
    /\ UNCHANGED <<upload, text, filename, data, fld, pat, consulted, set_by, result,
                   temp_exists, saved, status, cert_data, other_vars>>

NextRender ==
    GenerateCertificatePdf

SpecRender ==
    InitRender /\ [][NextRender]_vars


(***************************************************************************)
(* require_auth: the decorator in front of the handlers.                   *)
(***************************************************************************)
\* app.config['SECRET_KEY'] and the time of the request
SECRET_KEY ==
    "server-key"
utcnow ==
    0
\* tokens a client can send: signed with some key under some algorithm, with
\* an expiry before, at or after the time of the request, with or without
\* the user_id generate_token puts in
Tokens ==
    [word : {"jwt"}, key : {SECRET_KEY, "other-key"}, alg : {"HS256", "none"},
     exp : {utcnow - 1, utcnow, utcnow + 1}, user_id : BOOLEAN]
\* a part of a header that is not a token
Word(w) ==
    [word |-> w, key |-> "", alg |-> "", exp |-> utcnow, user_id |-> FALSE]
\* a token with an expiry after the request time that a key did not sign
verify_token_unsigned(token) ==
    token \in Tokens /\ token.exp > utcnow
\* verify_token(token): jwt.decode(token, SECRET_KEY, algorithms=['HS256'])
\* gives the payload; an expired or invalid token gives None
verify_token(token) ==
    /\ token \in Tokens
    /\ token.alg = "HS256"
    /\ token.key = SECRET_KEY
    /\ token.exp > utcnow
\* request.headers.get('Authorization'): None (the empty sequence), or the
\* header as the parts auth_header.split(' ') gives, for '', 'Bearer',
\* '<token>', 'Bearer <token>', 'Token <token>' and 'Bearer  <token>'
Headers ==
    {<<>>, <<Word("")>>, <<Word("Bearer")>>}
    \cup {<<t>> : t \in Tokens}
    \cup {<<Word(scheme), t>> : scheme \in {"Bearer", "Token"}, t \in Tokens}
    \cup {<<Word("Bearer"), Word(""), t>> : t \in Tokens}
\* the routes of the application, and those decorated with @require_auth
Routes ==
    {"/health", "/api/login", "/api/verify-token", "/api/car-data", "/api/validate",
     "/api/generate-certificate", "/api/batch-generate", "/api/extract-pdf"}
require_auth ==
    Routes \ {"/health", "/api/login"}

InitAuth ==
    /\ pc = "request"
    /\ request \in [route : Routes, header : Headers]
    /\ handler_ran = FALSE
    /\ status = 0
    /\ NoExtraction
    /\ NoCertificates
    /\ NoThreads

\* a route without the decorator: the handler is called
Undecorated ==
    /\ pc = "request"
    /\ request.route \notin require_auth
    /\ handler_ran' = TRUE
    /\ pc' = "handler"
    /\ UNCHANGED <<status, request, extract_vars, cert_vars, conc_vars>>
\* if not auth_header: 401
NoAuthHeader ==
    /\ pc = "request"
    /\ request.route \in require_auth
    /\ request.header \in {<<>>, <<Word("")>>}
    /\ status' = 401
    /\ pc' = "responded"
    /\ UNCHANGED <<request, handler_ran, extract_vars, cert_vars, conc_vars>>
\* token = auth_header.split(' ')[1] raises IndexError: 401
InvalidAuthHeader ==
    /\ pc = "request"
    /\ request.route \in require_auth
    /\ request.header \notin {<<>>, <<Word("")>>}
    /\ Len(request.header) < 2
    /\ status' = 401
    /\ pc' = "responded"
    /\ UNCHANGED <<request, handler_ran, extract_vars, cert_vars, conc_vars>>
\* payload = verify_token(token); if not payload: 401
InvalidToken ==
    /\ pc = "request"
    /\ request.route \in require_auth
    /\ Len(request.header) >= 2
    /\ ~verify_token(request.header[2])
    /\ status' = 401
    /\ pc' = "responded"
    /\ UNCHANGED <<request, handler_ran, extract_vars, cert_vars, conc_vars>>
\* request.user_id = payload['user_id'] raises KeyError: the handler is not
\* called and the framework answers 500
NoUserId ==
    /\ pc = "request"
    /\ request.route \in require_auth
    /\ Len(request.header) >= 2
    /\ verify_token(request.header[2])
    /\ ~request.header[2].user_id
    /\ status' = 500
    /\ pc' = "responded"
    /\ UNCHANGED <<request, handler_ran, extract_vars, cert_vars, conc_vars>>
\* return f(*args, **kwargs)
CallHandler ==
    /\ pc = "request"
    /\ request.route \in require_auth
    /\ Len(request.header) >= 2
    /\ verify_token(request.header[2])
    /\ request.header[2].user_id
    /\ handler_ran' = TRUE
    /\ pc' = "handler"
    /\ UNCHANGED <<status, request, extract_vars, cert_vars, conc_vars>>
\* the handler answers: with 200, or with 400 or 500 of its own
HandlerResponds ==
    /\ pc = "handler"
    /\ status' \in {200, 400, 500}
    /\ pc' = "responded"
    /\ UNCHANGED <<request, handler_ran, extract_vars, cert_vars, conc_vars>>

NextAuth ==
    \/ Undecorated
    \/ NoAuthHeader
    \/ InvalidAuthHeader
    \/ InvalidToken
    \/ NoUserId
    \/ CallHandler
    \/ HandlerResponds

SpecAuth ==
    InitAuth /\ [][NextAuth]_vars

(***************************************************************************)
(* generate_certificate and batch_generate, with send_email.               *)
(***************************************************************************)
\* 'evcertificate@ottocar.co.uk', the default of EMAIL_BCC in send_email
evcertificate ==
    <<"e", "v", "c", "e", "r", "t", "i", "f", "i", "c", "a", "t", "e", "@", "o", "t",
      "t", "o", "c", "a", "r", ".", "c", "o", ".", "u", "k">>
\* a variable the environment does not set
Unset ==
    <<"None">>
\* os.getenv(name, default), for EMAIL_BCC
getenv(name, default) ==
    IF env[name] = Unset THEN default ELSE env[name]
\* the settings: EMAIL_SENDER and EMAIL_PASSWORD set or not, EMAIL_BCC unset,
\* '', 'evcertificate@ottocar.co.uk' or 'audit@b.uk'
Envs ==
    [EMAIL_SENDER : BOOLEAN, EMAIL_PASSWORD : BOOLEAN,
     EMAIL_BCC : {Unset, <<>>, evcertificate, <<"a", "u", "d", "i", "t", "@", "b", ".", "u", "k">>}]
\* an entry: the five required fields all there or not, recipient_email
\* absent, 'driver@b.uk' or 'EVCERTIFICATE@OTTOCAR.CO.UK', state_of_health
\* there or not
Entries ==
    [required : BOOLEAN, state_of_health : BOOLEAN,
     recipient_email : {<<>>, <<"d", "r", "i", "v", "e", "r", "@", "b", ".", "u", "k">>,
                        upper(evcertificate)}]
\* a batch has at most MaxBatch entries
MaxBatch ==
    2
RECURSIVE Batches(_)
Batches(n) ==
    IF n = 0 THEN {<<>>}
    ELSE Batches(n - 1) \cup {Append(b, e) : b \in {c \in Batches(n - 1) : Len(c) = n - 1}, e \in Entries}

\* send_email(recipient, ...) for certificate i: the recipient list it hands
\* to sendmail and what it returns, delivered telling whether SMTP worked
send_email(i, recipient, delivered) ==
    LET bcc_email == strip(getenv("EMAIL_BCC", evcertificate))
        recipients == IF bcc_email # <<>> /\ lower(bcc_email) # lower(recipient)
                      THEN <<recipient, bcc_email>> ELSE <<recipient>>
    IN  IF ~env.EMAIL_SENDER \/ ~env.EMAIL_PASSWORD
        THEN [cert |-> i, recipient |-> recipient, recipients |-> <<>>, sent |-> FALSE]
        ELSE [cert |-> i, recipient |-> recipient, recipients |-> recipients, sent |-> delivered]
\* send_to = recipient_email if recipient_email else bcc_email, where
\* bcc_email = os.getenv('EMAIL_BCC', '').strip()
send_to(entry) ==
    IF strip(entry.recipient_email) # <<>> THEN strip(entry.recipient_email)
    ELSE strip(getenv("EMAIL_BCC", <<>>))
\* the e-mail step after a certificate was rendered: send_email is called if
\* EMAIL_SENDER is set and there is somebody to send to
after_email(i, delivered) ==
    IF env.EMAIL_SENDER /\ send_to(certificates[i]) # <<>>
    THEN Append(emails, send_email(i, send_to(certificates[i]), delivered))
    ELSE emails
\* an entry that failed, counted without its message
count_failed_only(r, message) ==
    [r EXCEPT !.failed = @ + 1]
\* results['failed'] += 1; results['errors'].append(message)
count_failed(r, message) ==
    [r EXCEPT !.failed = @ + 1, !.errors = Append(@, message)]

\* both handlers run behind require_auth
InitCert ==
    /\ pc = "handler"
    /\ status = 0
    /\ env \in Envs
    /\ \/ /\ request = [route |-> "/api/generate-certificate", header |-> <<Word("Bearer"), CHOOSE t \in Tokens : verify_token(t) /\ t.user_id>>]
          /\ certificates \in {<<e>> : e \in Entries}
       \/ /\ request = [route |-> "/api/batch-generate", header |-> <<Word("Bearer"), CHOOSE t \in Tokens : verify_token(t) /\ t.user_id>>]
          /\ certificates \in Batches(MaxBatch)
    /\ handler_ran = TRUE
    /\ idx = 0
    /\ results = [successful |-> 0, failed |-> 0, files |-> <<>>, errors |-> <<>>]
    /\ rendered = {}
    /\ emails = <<>>
    /\ NoExtraction
    /\ NoThreads

\* generate_certificate: a required field is missing, 400
GenerateInvalid ==
    /\ pc = "handler"
    /\ request.route = "/api/generate-certificate"
    /\ ~certificates[1].required
    /\ status' = 400
    /\ pc' = "responded"
    /\ UNCHANGED <<extract_vars, auth_vars, cert_vars, conc_vars>>
\* generate_certificate: the certificate is drawn (once, or twice when the
\* upload gave a URL for the QR code) and put at output_path, or one of
\* these steps raises
GenerateRender ==
    /\ pc = "handler"
    /\ request.route = "/api/generate-certificate"
    /\ certificates[1].required
    /\ \E ok \in BOOLEAN :
          IF ok THEN rendered' = {1} /\ pc' = "email"
          ELSE rendered' = rendered /\ pc' = "except"
    /\ UNCHANGED <<status, extract_vars, auth_vars, conc_vars, env, certificates, idx, results, emails>>
\* generate_certificate: with EMAIL_SENDER set the body of the e-mail is
\* built, get_battery_status(data.get('state_of_health')) raising TypeError
\* for no state_of_health, and send_email is called if there is a recipient
GenerateEmail ==
    /\ pc = "email"
    /\ IF env.EMAIL_SENDER /\ ~certificates[1].state_of_health
       THEN emails' = emails /\ pc' = "except"
       ELSE /\ \E delivered \in BOOLEAN : emails' = after_email(1, delivered)
            /\ pc' = "send_file"
    /\ UNCHANGED <<status, extract_vars, auth_vars, conc_vars, env, certificates, idx, results, rendered>>
\* generate_certificate: return send_file(output_path), or except Exception: 500
GenerateRespond ==
    /\ pc \in {"send_file", "except"}
    /\ status' = IF pc = "send_file" THEN 200 ELSE 500
    /\ pc' = "responded"
    /\ UNCHANGED <<extract_vars, auth_vars, cert_vars, conc_vars>>

\* batch_generate: if not certificates: 400
BatchEmpty ==
    /\ pc = "handler"
    /\ request.route = "/api/batch-generate"
    /\ certificates = <<>>
    /\ status' = 400
    /\ pc' = "responded"
    /\ UNCHANGED <<extract_vars, auth_vars, cert_vars, conc_vars>>
\* batch_generate: one iteration of the loop over the entries
BatchEntry ==
    /\ pc = "handler"
    /\ request.route = "/api/batch-generate"
    /\ idx < Len(certificates)
    /\ idx' = idx + 1
    /\ IF ~certificates[idx + 1].required
       THEN /\ results' = count_failed(results, <<idx + 1, "Missing required fields">>)
            /\ UNCHANGED <<rendered, emails>>
       ELSE \E ok \in BOOLEAN :
               IF ~ok
               THEN /\ results' = count_failed(results, <<idx + 1, "Generation failed">>)
                    /\ UNCHANGED <<rendered, emails>>
               ELSE /\ rendered' = rendered \cup {idx + 1}
                    /\ \E delivered \in BOOLEAN : emails' = after_email(idx + 1, delivered)
                    /\ results' = [results EXCEPT !.successful = @ + 1,
                                                  !.files = Append(@, idx + 1)]
    /\ UNCHANGED <<pc, status, extract_vars, auth_vars, conc_vars, env, certificates>>
\* batch_generate: the loop is over, the results are returned
BatchRespond ==
    /\ pc = "handler"
    /\ request.route = "/api/batch-generate"
    /\ certificates # <<>>
    /\ idx = Len(certificates)
    /\ status' = 200
    /\ pc' = "responded"
    /\ UNCHANGED <<extract_vars, auth_vars, cert_vars, conc_vars>>

NextCert ==
    \/ GenerateInvalid
    \/ GenerateRender
    \/ GenerateEmail
    \/ GenerateRespond
    \/ BatchEmpty
    \/ BatchEntry
    \/ BatchRespond

SpecCert ==
    InitCert /\ [][NextCert]_vars

(***************************************************************************)
(* Requests in progress at the same time: the files each one works on.     *)
(* The development server of app.run handles every request in a thread of  *)
(* its own.                                                                *)
(***************************************************************************)
\* at most MaxThreads requests are in progress
MaxThreads ==
    2
\* a request as it arrives: its handler, the name of its upload or the
\* registration of its certificate, and the uuid4 it will draw, different
\* for every request
Arrivals(r) ==
    [handler : {"extract_pdf"}, name : {"report.pdf"}, uuid : {r}, pc : {"file.save"}]
    \cup [handler : {"generate_certificate", "batch_generate"}, name : {"AB12CDE", "XY34ZZZ"},
          uuid : {r}, pc : {"generate_certificate_pdf"}]
\* the paths the request t has written and still reads, renames or deletes
files_of(t) ==
    LET temp_path == <<"temp_", t.uuid, t.name>>
        temp_pdf == <<t.name, 0, ".pdf.temp">>
        output_path == <<t.name, 0, ".pdf">>
        temp_qr == <<"temp_qr", 0, ".png">>
    IN  CASE t.pc \in {"os.path.getsize", "extract_data_from_pdf", "os.unlink(temp_path)"} -> {temp_path}
          [] t.pc \in {"upload_to_cloudinary", "os.rename", "qr_img"} -> {temp_pdf}
          [] t.pc = "os.remove(temp_qr)" -> {temp_pdf, temp_qr}
          [] t.pc = "os.unlink(temp_pdf)" -> {temp_pdf, output_path}
          [] t.pc \in {"send_email", "send_file"} -> {output_path}
          [] OTHER -> {}
\* the steps that can follow the one the request is at
successors(t) ==
    CASE t.pc = "file.save" -> {"os.path.getsize"}
      [] t.pc = "os.path.getsize" -> {"extract_data_from_pdf"}
      [] t.pc = "extract_data_from_pdf" -> {"os.unlink(temp_path)"}
      [] t.pc = "os.unlink(temp_path)" -> {"return"}
      [] t.pc = "generate_certificate_pdf" -> {"upload_to_cloudinary"}
      [] t.pc = "upload_to_cloudinary" -> {"qr_img", "os.rename"}
      [] t.pc = "qr_img" -> {"os.remove(temp_qr)"}
      [] t.pc = "os.remove(temp_qr)" -> {"os.unlink(temp_pdf)"}
      [] t.pc = "os.unlink(temp_pdf)" -> {"send_email"}
      [] t.pc = "os.rename" -> {"send_email"}
      [] t.pc = "send_email" -> {"send_file"}
      [] t.pc = "send_file" -> {"return"}
      [] OTHER -> {}

InitThreads ==
    /\ pc = "serving"
    /\ status = 0
    /\ threads \in {th \in [1..MaxThreads -> UNION {Arrivals(r) : r \in 1..MaxThreads}] :
                       \A r \in 1..MaxThreads : th[r].uuid = r}
    /\ calls = <<>>
    /\ outputs = {}
    /\ NoExtraction
    /\ NoRequest
    /\ NoCertificates

\* the thread of request r does its next step
ThreadStep(r) ==
    /\ \E next \in successors(threads[r]) : threads' = [threads EXCEPT ![r].pc = next]
    /\ UNCHANGED <<pc, status, extract_vars, auth_vars, cert_vars, calls, outputs>>

NextThreads ==
    \E r \in DOMAIN threads : ThreadStep(r)

SpecThreads ==
    InitThreads /\ [][NextThreads]_vars

(***************************************************************************)
(* Invocations of parse_diagnostic_report side by side and one after the   *)
(* other.                                                                  *)
(***************************************************************************)
\* at most MaxCalls invocations are in progress
MaxCalls ==
    2
\* the (text, filename) pairs the invocations are given: a report that names
\* a make and a state of charge, uploaded as Tesla-Model3-2023.pdf, and one
\* that names a model, a year and a test date, uploaded as report.pdf
Inputs ==
    {[text |-> Lines[2] \o <<"\n">> \o Lines[8] \o <<"\n">>,
      filename |-> temp_filename([present |-> TRUE, name |-> name_tesla])],
     [text |-> Lines[4] \o <<"\n">> \o Lines[10] \o <<"\n">>,
      filename |-> temp_filename([present |-> TRUE, name |-> name_report])]}
\* a bag that all the invocations fill
bag_of_module(p) ==
    1
\* data = {...}: the bag an invocation fills is a local of that invocation
bag(p) ==
    p
\* the loop of field f over the text s from its k-th pattern on: the pattern
\* that sets the field, 0 if none does, -1 if a conversion raises
RECURSIVE field_loop(_, _, _)
field_loop(f, s, k) ==
    IF k > Len(patterns(f)) THEN 0
    ELSE LET m == re_search(patterns(f)[k], s)
         IN  IF ~m.ok THEN field_loop(f, s, k + 1)
             ELSE IF raises(f, s, m) THEN 0 - 1
             ELSE IF accepted(f, s, m) THEN k
             ELSE field_loop(f, s, k + 1)

InitCalls ==
    /\ pc = "parsing"
    /\ status = 0
    /\ calls \in [1..MaxCalls -> {[text |-> i.text, filename |-> i.filename, fld |-> 0,
                                   raised |-> FALSE, data |-> empty_data] : i \in Inputs}]
    /\ outputs = {}
    /\ threads = <<>>
    /\ NoExtraction
    /\ NoRequest
    /\ NoCertificates

\* invocation p does its next step: the bag and the filename step, or the
\* loop of one field
ParseStep(p) ==
    /\ calls[p].fld <= Len(fields)
    /\ LET c == calls[p]
           d == calls[bag(p)].data
           f == fields[c.fld]
           k == field_loop(f, c.text, 1)
       IN  calls' =
             IF c.fld = 0
             THEN [calls EXCEPT ![p].fld = 1, ![bag(p)].data = seed(empty_data, c.filename)]
             ELSE IF k < 0
             THEN [calls EXCEPT ![p].fld = Len(fields) + 1, ![p].raised = TRUE]
             ELSE IF k = 0
             THEN [calls EXCEPT ![p].fld = @ + 1]
             ELSE [calls EXCEPT ![p].fld = @ + 1,
                                ![bag(p)].data = store(d, f, value(f, c.text,
                                                   re_search(patterns(f)[k], c.text)))]
    /\ UNCHANGED <<pc, status, extract_vars, auth_vars, cert_vars, threads, outputs>>
\* invocation p returns its bag (or has raised), and the next invocation
\* starts in its place
ParseReturn(p) ==
    /\ calls[p].fld > Len(fields)
    /\ outputs' = outputs \cup
          {[text |-> calls[p].text, filename |-> calls[p].filename, raised |-> calls[p].raised,
            data |-> IF calls[p].raised THEN empty_data ELSE calls[bag(p)].data]}
    /\ \E i \in Inputs :
          calls' = [calls EXCEPT ![p] = [text |-> i.text, filename |-> i.filename, fld |-> 0,
                                         raised |-> FALSE, data |-> empty_data]]
    /\ UNCHANGED <<pc, status, extract_vars, auth_vars, cert_vars, threads>>

NextCalls ==
    \E p \in DOMAIN calls : ParseStep(p) \/ ParseReturn(p)

SpecCalls ==
    InitCalls /\ [][NextCalls]_vars
(***************************************************************************)
(* Properties.                                                             *)
(***************************************************************************)
\* the index of field f in the order of extraction
index(f) ==
    CHOOSE i \in DOMAIN fields : fields[i] = f
\* the parser is past the loop of field f: it went on to a later field, or an
\* exception ended it inside that loop
loop_left(f) ==
    \/ fld > index(f)
    \/ fld = index(f) /\ pc # "patterns"
\* parse_diagnostic_report returned its bag
parse_returned ==
    fld > Len(fields)
\* extract_data_from_pdf returned
extract_returned ==
    pc \in {"unlink", "responded"} /\ saved
\* the patterns of f that were searched
consulted_of(f) ==
    {k \in 1..Len(patterns(f)) : <<f, k>> \in consulted}
\* the match of pattern k of field f in the text
match_of(f, k) ==
    re_search(patterns(f)[k], text)
\* pattern k of field f matches and the match passes the validation the
\* specification names for the field
passes_validation(f, k) ==
    LET m == match_of(f, k)
        g == group(text, m, 1)
    IN  /\ m.ok
        /\ CASE f = "model" -> Len(model_text(g)) > 1
             [] f = "mileage" -> ~float_raises_ValueError(miles_str(g))
             [] f = "soc" -> int(g) >= 0 /\ int(g) <= 100
             [] f = "battery_capacity" -> capacity_text(g) # <<>>
             [] OTHER -> TRUE
\* the first pattern of f whose match passes the validation (0: none)
first_valid(f) ==
    LET ok == {k \in 1..Len(patterns(f)) : passes_validation(f, k)}
    IN  IF ok = {} THEN 0 ELSE CHOOSE k \in ok : \A j \in ok : k <= j

\* C1: for every field, once the parser is past the field's loop, the field
\* was set by the first pattern (in declaration order) whose match passes the
\* field's validation, the patterns searched are exactly those up to that
\* one (all of them when no match passes), and the field is untouched when
\* no match passes.
C1_FirstValidPatternSetsField ==
    \A f \in FieldSet :
        loop_left(f) =>
            /\ set_by[f] = first_valid(f)
            /\ consulted_of(f) =
                 1..(IF first_valid(f) = 0 THEN Len(patterns(f)) ELSE first_valid(f))
            /\ first_valid(f) = 0 => data[f] = seed(empty_data, filename)[f]

\* C2: the bag's soc is unset or an integer in 0..100; a searched SOC pattern
\* whose number is outside 0..100 did not set it; state_of_health, when
\* present in the result, is one of the in-range numbers a SOC pattern
\* captures in the text, so it is absent when there is none.
C2_StateOfHealthInRange ==
    /\ data["soc"] = Str(<<>>) \/ (data["soc"].t = "int" /\ data["soc"].n \in 0..100)
    /\ \A k \in consulted_of("soc") :
          (match_of("soc", k).ok /\ int(group(text, match_of("soc", k), 1)) \notin 0..100)
              => set_by["soc"] # k
    /\ "state_of_health" \in DOMAIN result.map =>
          /\ result.map["state_of_health"].t = "int"
          /\ result.map["state_of_health"].n \in 0..100
          /\ \E k \in 1..Len(soc_patterns) :
                /\ match_of("soc", k).ok
                /\ int(group(text, match_of("soc", k), 1)) = result.map["state_of_health"].n
\* a report with "SOC: 140%" and a lower-numbered pattern in range: 140 was
\* searched and refused, state_of_health is the in-range number
C2_Witness ==
    /\ pc = "responded"
    /\ match_of("soc", 3).ok
    /\ int(group(text, match_of("soc", 3), 1)) = 140
    /\ "state_of_health" \in DOMAIN result.map
    /\ result.map["state_of_health"] = IntV(100)

\* C3: when the parser returned and the first SOC pattern that matches
\* captures v with 0 <= v <= 100, the result has state_of_health = v.
C3_InRangeSocIsReturned ==
    (extract_returned /\ parse_returned) =>
        LET k == first_match(soc_patterns, text, 1)
            v == int(group(text, match_of("soc", k), 1))
        IN  (k # 0 /\ v >= 0 /\ v <= 100) =>
                /\ "state_of_health" \in DOMAIN result.map
                /\ result.map["state_of_health"] = IntV(v)

\* C4: after the filename step, make, model and year hold the value of the
\* body pattern that set them, whatever the filename gave, and hold the
\* filename's value (or nothing) only when no body pattern set them.
C4_BodyOverridesFilename ==
    fld > 0 =>
        LET filename_data == extract_from_filename(filename)
        IN  \A f \in {"make", "model", "year"} :
                IF set_by[f] # 0
                THEN data[f] = value(f, text, match_of(f, set_by[f]))
                ELSE data[f] = get(filename_data, f, Str(<<>>))
\* the filename gave make and model, the body set another make, and the
\* filename's model is still there
C4_Witness ==
    /\ pc = "responded"
    /\ "make" \in DOMAIN extract_from_filename(filename)
    /\ set_by["make"] # 0
    /\ data["make"] # extract_from_filename(filename)["make"]
    /\ set_by["model"] = 0
    /\ data["model"] = extract_from_filename(filename)["model"]

\* C5: the result has only canonical keys; a key is there only if the bag has
\* a non-empty value for its field, and the value in the result is itself
\* non-empty (no default, no sentinel); a bag in which exactly vin and make
\* are set gives exactly the keys make and vin.
C5_OnlyPopulatedKeys ==
    /\ DOMAIN result.map \subseteq CanonicalKeys
    /\ \A key \in DOMAIN result.map :
          /\ data[raw_field(key)] # Str(<<>>)
          /\ truthy(result.map[key])
    /\ (extract_returned /\ parse_returned
           /\ {f \in FieldSet : data[f] # Str(<<>>)} = {"vin", "make"})
         => (~result.none /\ DOMAIN result.map = {"make", "vin"})
C5_Witness ==
    /\ pc = "responded"
    /\ parse_returned
    /\ {f \in FieldSet : data[f] # Str(<<>>)} = {"vin", "make"}
    /\ DOMAIN result.map = {"make", "vin"}

\* C6: when the parser returned, extract_data_from_pdf returns None (answered
\* with 400) if every field of the bag is unset, and does not return None if
\* the parser set at least one field.
C6_NoDataIffNothingExtracted ==
    (pc = "responded" /\ saved /\ parse_returned) =>
        /\ (\A f \in FieldSet : data[f] = Str(<<>>)) => (result.none /\ status = 400)
        /\ (\E f \in FieldSet : data[f] # Str(<<>>)) => ~result.none

C8_OmittedKeysAreBlank ==
    pc = "rendered" =>
        \A key \in CanonicalKeys \ DOMAIN cert_data : cert[key] = <<>>

\* C9: parse_diagnostic_report does not raise; the bag it returns has the
\* eight fields, each field no pattern set holding what it held after the
\* filename step; and no exception leaves extract_data_from_pdf (the except
\* branch of extract_pdf is reached before the extraction only).
C9_ParserNeverRaises ==
    /\ pc # "parse_raised"
    /\ parse_returned =>
          /\ DOMAIN data = FieldSet
          /\ \A f \in FieldSet : set_by[f] = 0 => data[f] = seed(empty_data, filename)[f]
    /\ pc = "except" => fld = 0 /\ text = <<>>

\* C10: test_date is in the result exactly when a date pattern matches the
\* report, and it is then y-m-d for the triplet (y, m, d) captured by the
\* first date pattern that matches.
C10_TestDateRoundTrip ==
    extract_returned =>
        LET k == first_match(date_patterns, text, 1)
            m == match_of("test_date", k)
        IN  /\ "test_date" \in DOMAIN result.map <=> k # 0
            /\ k # 0 =>
                 result.map["test_date"] =
                     Str(group(text, m, 1) \o <<"-">> \o group(text, m, 2)
                         \o <<"-">> \o group(text, m, 3))


\* C14: the entry of every field is what the filename step left or the value
\* of one of the field's own patterns that was searched in the text, and
\* when the parser has ended every field's patterns were searched: no field
\* kept another from being extracted.
C14_FieldsAreIndependent ==
    fld > 0 =>
        /\ \A f \in FieldSet :
              \/ data[f] = seed(empty_data, filename)[f]
              \/ \E k \in consulted_of(f) :
                    /\ match_of(f, k).ok
                    /\ ~raises(f, text, match_of(f, k))
                    /\ accepted(f, text, match_of(f, k))
                    /\ data[f] = value(f, text, match_of(f, k))
        /\ pc \notin {"parse_diagnostic_report", "patterns"} =>
              \A f \in FieldSet : consulted_of(f) # {}

\* a model value of more than one character, without a run of white space
\* and without a colon or white space at its end
clean(s) ==
    /\ Len(s) > 1
    /\ \A i \in 1..(Len(s) - 1) : ~(s[i] \in Space /\ s[i + 1] \in Space)
    /\ s[Len(s)] \notin {":"} \cup Space
\* C15 (as claimed): every non-empty model the parser returns is clean,
\* whether a body pattern or the filename gave it.
C15_ModelIsClean ==
    (parse_returned /\ data["model"] # Str(<<>>)) => clean(data["model"].s)
\* C15 (amended): a model set by a body pattern is clean; a model no body
\* pattern set is the filename's, character for character, or empty.
C15_BodyModelIsClean ==
    loop_left("model") =>
        IF set_by["model"] # 0
        THEN clean(data["model"].s)
        ELSE data["model"] = seed(empty_data, filename)["model"]
\* a body pattern set the model and the cleaning changed what it captured
C15_Witness ==
    /\ pc = "responded"
    /\ set_by["model"] # 0
    /\ data["model"].s # group(text, match_of("model", set_by["model"]), 1)
    /\ clean(data["model"].s)

\* the request carries a correctly signed, unexpired JWT in its header
carries_valid_jwt ==
    \E i \in DOMAIN request.header :
        LET token == request.header[i]
        IN  /\ token \in Tokens
            /\ token.alg = "HS256" /\ token.key = SECRET_KEY
            /\ token.exp > utcnow
\* C13: on a route other than /health and /api/login the handler is called
\* only for a request that carries a correctly signed, unexpired JWT; any
\* other request is answered 401 and the handler is never called for it.
C13_HandlerOnlyWithValidToken ==
    request.route \in Routes \ {"/health", "/api/login"} =>
        /\ handler_ran => carries_valid_jwt
        /\ (pc = "responded" /\ ~carries_valid_jwt) => (status = 401 /\ ~handler_ran)
\* an expired token with a good signature was answered 401
C13_Witness ==
    /\ pc = "responded"
    /\ request.route = "/api/generate-certificate"
    /\ Len(request.header) = 2
    /\ request.header[1] = Word("Bearer")
    /\ request.header[2] = [word |-> "jwt", key |-> SECRET_KEY, alg |-> "HS256",
                            exp |-> utcnow, user_id |-> TRUE]
    /\ status = 401
    /\ ~handler_ran

\* C12: every e-mail send_email reports as sent has
\* evcertificate@ottocar.co.uk among the recipients given to sendmail: alone
\* when it is the given recipient, next to the given recipient otherwise.
C12_OttocarAlwaysReceives ==
    \A i \in DOMAIN emails :
        emails[i].sent =>
            emails[i].recipients =
                IF lower(emails[i].recipient) = evcertificate
                THEN <<emails[i].recipient>>
                ELSE <<emails[i].recipient, evcertificate>>

\* C16: when the request is answered, send_email was called for every
\* certificate that was rendered.
C16_EmailAttempted ==
    pc = "responded" =>
        \A i \in rendered : \E j \in DOMAIN emails : emails[j].cert = i

\* C17: a generate_certificate request that passes the validation is
\* answered with the certificate exactly when the certificate was rendered,
\* whatever the e-mail settings and whatever became of the e-mail.
C17_OutcomeIndependentOfEmail ==
    (pc = "responded" /\ request.route = "/api/generate-certificate"
        /\ certificates[1].required)
      => (status = 200 <=> 1 \in rendered)

\* C19: after batch_generate processed a non-empty list, successful + failed
\* is the number of entries, files has successful entries and errors has
\* failed entries, every entry is in files or in errors, and the answer is 200.
C19_BatchCounts ==
    (request.route = "/api/batch-generate" /\ certificates # <<>>) =>
        /\ results.successful + results.failed = idx
        /\ Len(results.files) = results.successful
        /\ Len(results.errors) = results.failed
        /\ pc = "responded" =>
              /\ idx = Len(certificates)
              /\ status = 200
              /\ \A i \in DOMAIN certificates :
                    \/ \E j \in DOMAIN results.files : results.files[j] = i
                    \/ \E j \in DOMAIN results.errors : results.errors[j][1] = i
\* a batch whose first entry failed and whose second entry was generated
C19_Witness ==
    /\ pc = "responded"
    /\ request.route = "/api/batch-generate"
    /\ Len(certificates) = 2
    /\ results.errors = <<(<<1, "Missing required fields">>)>>
    /\ results.files = <<2>>

\* C18: no file is in use by two requests in progress at the same time.
C18_NoSharedPath ==
    \A r1, r2 \in DOMAIN threads :
        r1 # r2 => files_of(threads[r1]) \cap files_of(threads[r2]) = {}

\* C11: two invocations that were given the same text and filename returned
\* the same thing, whatever ran between them or next to them.
C11_SameInputSameOutput ==
    \A a, b \in outputs :
        (a.text = b.text /\ a.filename = b.filename) => a = b
\* an invocation returned for a pair that two invocations in progress, at
\* different fields, are parsing again, after one for another pair returned
C11_Witness ==
    /\ \E p, q \in DOMAIN calls :
          /\ calls[p].text = calls[q].text /\ calls[p].filename = calls[q].filename
          /\ calls[p].fld > 0 /\ calls[q].fld > calls[p].fld
          /\ \E a \in outputs : a.text = calls[p].text /\ a.filename = calls[p].filename
    /\ \E a, b \in outputs : a.text # b.text
=============================================================================
